---- MODULE Spec2Model ----
(***************************************************************************)
(* A state-machine model of app.py, the Streamlit PDF compressor.          *)
(*                                                                         *)
(* Every execution of the script (one per button click or widget change)   *)
(* is a "run".  A run belongs to one browser session; st.session_state is  *)
(* the per-session store of Streamlit, so the lock created at lines 13-14  *)
(* is one lock per session.  The temporary directory is shared by all      *)
(* runs.  Library calls that can raise (file write, fitz.open, rendering,  *)
(* encoding, save, read back, getsize) either succeed or raise, chosen     *)
(* nondeterministically.  os.remove after os.path.exists, the closing of  *)
(* documents and the calls that only draw the page (progress bar, status   *)
(* box, table) are taken not to raise.  Definitions introduced as          *)
(* "variant" are deliberately faulty versions of the definition that       *)
(* follows them, used to test that the properties depend on it.            *)
(*                                                                         *)
(* Python's None is modelled by the empty sequence <<>>, a held value v by *)
(* the one-element sequence <<v>>.  Sizes are in whole megabytes.          *)
(***************************************************************************)
EXTENDS Integers, Sequences, FiniteSets, TLC

VARIABLES
    process_lock,       \* session -> the run holding that session's lock, or "free"
    session,            \* run -> the session whose st.session_state it sees
    up_files,           \* run -> the uploaded files (st.file_uploader)
    mode,               \* run -> the slider's value
    pc,                 \* run -> position in the script
    idx,                \* run -> enumerate() index of the per-file loop (0-based)
    fs,                 \* the temporary directory: path -> file content
    f_in_path,          \* run -> path of the staged input
    comp_path,          \* run -> path fast_compress returned, or None
    doc,                \* run -> pages of the opened input (fast_compress local)
    out_doc,            \* run -> pages of the output being assembled
    pno,                \* run -> position of "for page in doc" (1-based)
    pix,                \* run -> the pixmap of the current page, or None
    img_data,           \* run -> the JPEG stream last encoded, or None
    processed_results,  \* run -> list of (bytes, filename)
    report_data,        \* run -> list of report rows
    errors,             \* run -> the st.error messages of the per-file handler
    download,           \* run -> the download button offered, or None
    passes              \* run -> calls of fast_compress made for the current file

vars == <<process_lock, session, up_files, mode, pc, idx, fs, f_in_path,
          comp_path, doc, out_doc, pno, pix, img_data, processed_results,
          report_data, errors, download, passes>>

frame == <<doc, out_doc, pno, pix, img_data>>
inputs == <<session, up_files, mode>>

----------------------------------------------------------------------------
(* Bounds and inputs *)

Runs == {"r1", "r2"}
Sessions == {"s1", "s2"}

\* Longest batch of uploaded files a run is given.
MaxBatch == 2
\* Output files measure 1..MaxOutSize megabytes.
MaxOutSize == 3

MAX_FILE_SIZE_MB == 200

Modes == {"Extreme", "Recommended", "High Quality"}

\* Variant: Extreme encodes at the quality of Recommended.
settings_map_mixed ==
    [m \in Modes |->
        CASE m = "Extreme"      -> [dpi |-> 60,  quality |-> 50]
          [] m = "Recommended"  -> [dpi |-> 75,  quality |-> 50]
          [] m = "High Quality" -> [dpi |-> 110, quality |-> 75]]
\* Lines 74-78.
settings_map ==
    [m \in Modes |->
        CASE m = "Extreme"      -> [dpi |-> 60,  quality |-> 30]
          [] m = "Recommended"  -> [dpi |-> 75,  quality |-> 50]
          [] m = "High Quality" -> [dpi |-> 110, quality |-> 75]]

Page(w, h) == [width |-> w, height |-> h]

\* Two uploads: a small two-page document whose pages differ in size, and a
\* large one-page document (two of them exceed MAX_FILE_SIZE_MB).
UploadA == [name |-> "a.pdf", size |-> 2, pages |-> <<Page(3, 4), Page(4, 3)>>]
UploadB == [name |-> "b.pdf", size |-> 150, pages |-> <<Page(5, 5)>>]
Uploads == {UploadA, UploadB}

Batches == UNION {[1..n -> Uploads] : n \in 1..MaxBatch}
\* The batches of the concurrent specification: no upload, one file, or two
\* files over the size limit.
ConcBatches == {<<>>, <<UploadA>>, <<UploadB>>, <<UploadB, UploadB>>}

----------------------------------------------------------------------------
(* Helpers *)

Upd(f, r, v) == [f EXCEPT ![r] = v]

\* A file of the temporary directory is written (created or replaced).
WriteFile(dir, p, c) == [q \in (DOMAIN dir) \cup {p} |-> IF q = p THEN c ELSE dir[q]]

\* os.path.exists / os.remove.
Exists(dir, p) == p \in DOMAIN dir
RemoveFile(dir, p) == [q \in (DOMAIN dir) \ {p} |-> dir[q]]

\* What a write or a save that raised leaves on disk.
Truncated == [pages |-> <<>>, size |-> 0]

RECURSIVE SumSizes(_)
SumSizes(files) ==
    IF files = <<>> THEN 0 ELSE Head(files).size + SumSizes(Tail(files))

CurFile(r) == up_files[r][idx[r] + 1]

\* Names tempfile gives: unique per run, per file and per role.
InPath(r) == <<r, idx[r], "in">>
OutPath(r) == <<r, idx[r], "out">>

\* threading.Lock: acquire and release of the lock the run's session holds.
AcquireLock(l, s, r) == [l EXCEPT ![s] = r]
\* Variant: the lock is never given back.
ReleaseLockLeak(l, s) == l
ReleaseLock(l, s) == [l EXCEPT ![s] = "free"]

\* Variant: the handler calls fast_compress again.
HandlerRetries == "compress"
\* Variant: the handler leaves the loop.
HandlerBreaks == "complete"
\* Where control goes once the per-file handler has run: the finally block.
HandlerTarget == "finally"

\* except Exception as e: st.error(...).  e names the call that raised.  The
\* locals of fast_compress are gone with its frame.
Except(r, e) ==
    /\ errors' = Upd(errors, r,
                     Append(errors[r], [idx |-> idx[r], name |-> CurFile(r).name, e |-> e]))
    /\ pc' = Upd(pc, r, HandlerTarget)
    /\ doc' = Upd(doc, r, <<>>)
    /\ out_doc' = Upd(out_doc, r, <<>>)
    /\ pno' = Upd(pno, r, 0)
    /\ pix' = Upd(pix, r, <<>>)
    /\ img_data' = Upd(img_data, r, <<>>)

----------------------------------------------------------------------------
(* Initial states *)

InitCommon ==
    /\ process_lock = [s \in Sessions |-> "free"]
    /\ session \in [Runs -> Sessions]
    /\ pc = [r \in Runs |-> "start"]
    /\ idx = [r \in Runs |-> 0]
    /\ fs = <<>>
    /\ f_in_path = [r \in Runs |-> <<>>]
    /\ comp_path = [r \in Runs |-> <<>>]
    /\ doc = [r \in Runs |-> <<>>]
    /\ out_doc = [r \in Runs |-> <<>>]
    /\ pno = [r \in Runs |-> 0]
    /\ pix = [r \in Runs |-> <<>>]
    /\ img_data = [r \in Runs |-> <<>>]
    /\ processed_results = [r \in Runs |-> <<>>]
    /\ report_data = [r \in Runs |-> <<>>]
    /\ errors = [r \in Runs |-> <<>>]
    /\ download = [r \in Runs |-> <<>>]
    /\ passes = [r \in Runs |-> 0]

\* One run with files and any mode; the other run has no upload.
Init ==
    /\ InitCommon
    /\ up_files \in {f \in [Runs -> Batches \cup {<<>>}] :
                        f["r1"] # <<>> /\ f["r2"] = <<>>}
    /\ mode \in {m \in [Runs -> Modes] : m["r2"] = "Recommended"}

\* Both runs may have a file, the slider at its default.
InitConc ==
    /\ InitCommon
    /\ up_files \in [Runs -> ConcBatches]
    /\ mode = [r \in Runs |-> "Recommended"]

----------------------------------------------------------------------------
(* The script, lines 82-91 *)

Start(r) ==
    /\ pc[r] = "start"
    /\ \/ /\ up_files[r] = <<>>
          /\ pc' = Upd(pc, r, "idle")
       \/ /\ up_files[r] # <<>>
          /\ SumSizes(up_files[r]) > MAX_FILE_SIZE_MB
          /\ pc' = Upd(pc, r, "rejected")
       \/ /\ up_files[r] # <<>>
          /\ SumSizes(up_files[r]) <= MAX_FILE_SIZE_MB
          /\ \/ pc' = Upd(pc, r, "acquire")     \* the button was pressed
             \/ pc' = Upd(pc, r, "idle")        \* it was not
    /\ UNCHANGED <<process_lock, inputs, idx, fs, f_in_path, comp_path, frame,
                   processed_results, report_data, errors, download, passes>>

\* with st.session_state.process_lock: blocks until the lock is free.
Acquire(r) ==
    /\ pc[r] = "acquire"
    /\ process_lock[session[r]] = "free"
    /\ process_lock' = AcquireLock(process_lock, session[r], r)
    /\ processed_results' = Upd(processed_results, r, <<>>)
    /\ report_data' = Upd(report_data, r, <<>>)
    /\ idx' = Upd(idx, r, 0)
    /\ pc' = Upd(pc, r, "stage")
    /\ UNCHANGED <<inputs, fs, f_in_path, comp_path, frame, errors, download, passes>>

----------------------------------------------------------------------------
(* The per-file loop, lines 98-143 *)

\* Lines 98-106.  NamedTemporaryFile(delete=False) creates the file, then the
\* upload's buffer is written to it.  A write that raises leaves the file
\* behind, and the exception leaves the loop and the with block (which
\* releases the lock): the run ends with an uncaught exception.
Stage(r) ==
    /\ pc[r] = "stage"
    /\ \/ /\ fs' = WriteFile(fs, InPath(r),
                             [pages |-> CurFile(r).pages, size |-> CurFile(r).size])
          /\ f_in_path' = Upd(f_in_path, r, InPath(r))
          /\ comp_path' = Upd(comp_path, r, <<>>)
          /\ passes' = Upd(passes, r, 0)
          /\ pc' = Upd(pc, r, "compress")
          /\ UNCHANGED process_lock
       \/ /\ fs' = WriteFile(fs, InPath(r), Truncated)
          /\ process_lock' = ReleaseLock(process_lock, session[r])
          /\ pc' = Upd(pc, r, "raised")
          /\ UNCHANGED <<f_in_path, comp_path, passes>>
    /\ UNCHANGED <<inputs, idx, frame, processed_results, report_data, errors,
                   download>>

\* Line 109 (the call) and lines 28-29: doc = fitz.open(input_path);
\* out_doc = fitz.open().
Open(r) ==
    /\ pc[r] = "compress"
    /\ passes' = Upd(passes, r, passes[r] + 1)
    /\ \/ /\ doc' = Upd(doc, r, fs[f_in_path[r]].pages)
          /\ out_doc' = Upd(out_doc, r, <<>>)
          /\ pno' = Upd(pno, r, 1)
          /\ pc' = Upd(pc, r, "page")
          /\ UNCHANGED <<pix, img_data, errors>>
       \/ Except(r, "open")
    /\ UNCHANGED <<process_lock, inputs, idx, fs, f_in_path, comp_path,
                   processed_results, report_data, download>>

\* Lines 31-37: the next page is taken and rendered at zoom = dpi / 72.
Render(r) ==
    /\ pc[r] = "page"
    /\ pno[r] <= Len(doc[r])
    /\ \/ /\ pix' = Upd(pix, r, <<[page |-> pno[r], dpi |-> settings_map[mode[r]].dpi]>>)
          /\ pc' = Upd(pc, r, "encode")
          /\ UNCHANGED <<doc, out_doc, pno, img_data, errors>>
       \/ Except(r, "render")
    /\ UNCHANGED <<process_lock, inputs, idx, fs, f_in_path, comp_path,
                   processed_results, report_data, download, passes>>

\* Line 38: img_data = pix.tobytes("jpg", jpg_quality=quality).
Encode(r) ==
    /\ pc[r] = "encode"
    /\ \/ /\ img_data' = Upd(img_data, r,
                             <<[page |-> pix[r][1].page, dpi |-> pix[r][1].dpi,
                                quality |-> settings_map[mode[r]].quality]>>)
          /\ pc' = Upd(pc, r, "newpage")
          /\ UNCHANGED <<doc, out_doc, pno, pix, errors>>
       \/ Except(r, "encode")
    /\ UNCHANGED <<process_lock, inputs, idx, fs, f_in_path, comp_path,
                   processed_results, report_data, download, passes>>

\* Variant: width and height exchanged.
new_page_swapped(pages, w, h, img) == Append(pages, [width |-> h, height |-> w, img |-> img])
\* out_doc.new_page(width=, height=) appends a page (pno=-1 by default);
\* insert_image fills it with the stream.
new_page(pages, w, h, img) == Append(pages, [width |-> w, height |-> h, img |-> img])

\* Lines 41-42.
NewPage(r) ==
    /\ pc[r] = "newpage"
    /\ out_doc' = Upd(out_doc, r,
                      new_page(out_doc[r], doc[r][pno[r]].width,
                               doc[r][pno[r]].height, img_data[r][1]))
    /\ pc' = Upd(pc, r, "clear")
    /\ UNCHANGED <<process_lock, inputs, idx, fs, f_in_path, comp_path, doc, pno,
                   pix, img_data, processed_results, report_data, errors,
                   download, passes>>

\* Line 45: pix = None; img_data stays bound.  The loop goes to the next page.
Clear(r) ==
    /\ pc[r] = "clear"
    /\ pix' = Upd(pix, r, <<>>)
    /\ pno' = Upd(pno, r, pno[r] + 1)
    /\ pc' = Upd(pc, r, "page")
    /\ UNCHANGED <<process_lock, inputs, idx, fs, f_in_path, comp_path, doc,
                   out_doc, img_data, processed_results, report_data, errors,
                   download, passes>>

\* Lines 48-53 and the assignment of line 109: out_path = tempfile.mktemp();
\* out_doc.save(out_path); both documents are closed and out_path is returned
\* into comp_path.  A save that raises may or may not have left a partial file
\* at out_path, which only the lost local names: comp_path is still None.
Save(r) ==
    /\ pc[r] = "page"
    /\ pno[r] > Len(doc[r])
    /\ \/ /\ \E sz \in 1..MaxOutSize :
                fs' = WriteFile(fs, OutPath(r), [pages |-> out_doc[r], size |-> sz])
          /\ comp_path' = Upd(comp_path, r, OutPath(r))
          /\ doc' = Upd(doc, r, <<>>)
          /\ out_doc' = Upd(out_doc, r, <<>>)
          /\ pno' = Upd(pno, r, 0)
          /\ pix' = Upd(pix, r, <<>>)
          /\ img_data' = Upd(img_data, r, <<>>)
          /\ pc' = Upd(pc, r, "read")
          /\ UNCHANGED errors
       \/ /\ \E partial \in BOOLEAN :
                fs' = IF partial THEN WriteFile(fs, OutPath(r), Truncated) ELSE fs
          /\ Except(r, "save")
          /\ UNCHANGED comp_path
    /\ UNCHANGED <<process_lock, inputs, idx, f_in_path, processed_results,
                   report_data, download, passes>>

\* Lines 116-119: the output is read back and appended with the upload's name.
Read(r) ==
    /\ pc[r] = "read"
    /\ \/ /\ processed_results' = Upd(processed_results, r,
                 Append(processed_results[r], <<fs[comp_path[r]], CurFile(r).name>>))
          /\ pc' = Upd(pc, r, "report")
          /\ UNCHANGED <<frame, errors>>
       \/ /\ Except(r, "read")
          /\ UNCHANGED processed_results
    /\ UNCHANGED <<process_lock, inputs, idx, fs, f_in_path, comp_path,
                   report_data, download, passes>>

\* int((1 - new_s / orig_s) * 100): int() truncates towards zero.
Reduction(orig_s, new_s) ==
    IF new_s <= orig_s
    THEN ((orig_s - new_s) * 100) \div orig_s
    ELSE 0 - (((new_s - orig_s) * 100) \div orig_s)

\* Lines 122-131.  The row holds the numbers its strings are formatted from.
ReportRow(name, orig_s, new_s) ==
    [FileName |-> name, Original |-> orig_s, Compressed |-> new_s,
     Saved |-> Reduction(orig_s, new_s)]

Report(r) ==
    /\ pc[r] = "report"
    /\ \/ /\ report_data' = Upd(report_data, r,
                 Append(report_data[r],
                        ReportRow(CurFile(r).name, fs[f_in_path[r]].size,
                                  processed_results[r][Len(processed_results[r])][1].size)))
          /\ pc' = Upd(pc, r, "finally")
          /\ UNCHANGED <<frame, errors>>
       \/ /\ Except(r, "report")
          /\ UNCHANGED report_data
    /\ UNCHANGED <<process_lock, inputs, idx, fs, f_in_path, comp_path,
                   processed_results, download, passes>>

\* Lines 138-141: both temp files are removed when they exist.
Cleanup(dir, fin, comp) ==
    LET d1 == IF Exists(dir, fin) THEN RemoveFile(dir, fin) ELSE dir
    IN  IF comp # <<>> /\ Exists(d1, comp) THEN RemoveFile(d1, comp) ELSE d1

\* Lines 136-143, then the loop takes the next file or ends.
Finally(r) ==
    /\ pc[r] = "finally"
    /\ fs' = Cleanup(fs, f_in_path[r], comp_path[r])
    /\ idx' = Upd(idx, r, idx[r] + 1)
    /\ pc' = Upd(pc, r, IF idx[r] + 1 < Len(up_files[r]) THEN "stage" ELSE "complete")
    /\ UNCHANGED <<process_lock, inputs, f_in_path, comp_path, frame,
                   processed_results, report_data, errors, download, passes>>

----------------------------------------------------------------------------
(* After the loop, lines 145-173 *)

ZipEntries(results) ==
    [k \in 1..Len(results) |->
        [name |-> "compressed_" \o results[k][2], data |-> results[k][1]]]

\* Variant: the first result is offered as a PDF whenever there is one.
DownloadAnyAsPdf(results) ==
    IF Len(results) >= 1
    THEN [kind |-> "pdf", file_name |-> "compressed_" \o results[1][2],
          entries |-> <<[name |-> "compressed_" \o results[1][2], data |-> results[1][1]]>>]
    ELSE [kind |-> "zip", file_name |-> "compressed_pdfs_batch.zip",
          entries |-> ZipEntries(results)]
\* Lines 150-173: one result is offered as a PDF, anything else as a ZIP.
DownloadButton(results) ==
    IF Len(results) = 1
    THEN [kind |-> "pdf", file_name |-> "compressed_" \o results[1][2],
          entries |-> <<[name |-> "compressed_" \o results[1][2], data |-> results[1][1]]>>]
    ELSE [kind |-> "zip", file_name |-> "compressed_pdfs_batch.zip",
          entries |-> ZipEntries(results)]

\* status_box.success, the table and the download button.
Complete(r) ==
    /\ pc[r] = "complete"
    /\ download' = Upd(download, r, <<DownloadButton(processed_results[r])>>)
    /\ pc' = Upd(pc, r, "release")
    /\ UNCHANGED <<process_lock, inputs, idx, fs, f_in_path, comp_path, frame,
                   processed_results, report_data, errors, passes>>

\* The with block of line 91 is left: the lock is released.
Release(r) ==
    /\ pc[r] = "release"
    /\ process_lock' = ReleaseLock(process_lock, session[r])
    /\ pc' = Upd(pc, r, "end")
    /\ UNCHANGED <<inputs, idx, fs, f_in_path, comp_path, frame,
                   processed_results, report_data, errors, download, passes>>

----------------------------------------------------------------------------
(* Specifications *)

Step(r) ==
    \/ Start(r)
    \/ Acquire(r)
    \/ Stage(r)
    \/ Open(r)
    \/ Render(r)
    \/ Encode(r)
    \/ NewPage(r)
    \/ Clear(r)
    \/ Save(r)
    \/ Read(r)
    \/ Report(r)
    \/ Finally(r)
    \/ Complete(r)
    \/ Release(r)

Next == \E r \in Runs : Step(r)

\* One run at a time, every batch and mode.
Spec == Init /\ [][Next]_vars

\* Two runs, in the same session or in different ones.
SpecConc == InitConc /\ [][Next]_vars

\* Each run is a thread that keeps being scheduled.
FairSpec == InitConc /\ [][Next]_vars /\ \A r \in Runs : WF_vars(Step(r))

----------------------------------------------------------------------------
(* Properties *)

\* The processing section: from the lock's acquisition to its release.
InSection(r) ==
    pc[r] \in {"stage", "compress", "page", "encode", "newpage", "clear", "read",
               "report", "finally", "complete", "release"}

\* The batch ran to the end of the with block.
Finished(r) == pc[r] \in {"release", "end"}

\* The processing of file i (0-based) of run r has ended.
FileEnded(r, i) ==
    \/ idx[r] > i
    \/ idx[r] = i /\ pc[r] = "raised"

\* C1: across all runs, of any session, at most one is inside the processing
\* section at any time.
C1_MutualExclusion ==
    \A r1, r2 \in Runs : r1 # r2 => ~(InSection(r1) /\ InSection(r2))

\* C2: once the processing of a file has ended, on whatever path, neither its
\* staged input nor its intermediate output is left in the temporary directory.
C2_NoTempFileLeft ==
    \A r \in Runs : \A i \in 0..(Len(up_files[r]) - 1) :
        FileEnded(r, i) =>
            /\ ~Exists(fs, <<r, i, "in">>)
            /\ ~Exists(fs, <<r, i, "out">>)

\* C3: the output of fast_compress has as many pages as the input, in the same
\* order, and page i of the output has the width and height of page i of the
\* input, for every document and every (dpi, quality) setting.
C3_PagesPreserved ==
    \A r \in Runs :
        pc[r] = "read" =>
            LET inp == CurFile(r).pages
                out == fs[comp_path[r]].pages
            IN  /\ Len(out) = Len(inp)
                /\ \A i \in 1..Len(inp) :
                      /\ out[i].width = inp[i].width
                      /\ out[i].height = inp[i].height
                      /\ out[i].img.page = i

\* fast_compress has returned the output of a document whose two pages differ
\* in size.
C3_Witness ==
    \E r \in Runs :
        /\ pc[r] = "read"
        /\ Len(CurFile(r).pages) = 2
        /\ CurFile(r).pages[1] # CurFile(r).pages[2]
        /\ mode[r] = "Extreme"

----------------------------------------------------------------------------
(* What happened to file i (0-based) of run r, read from the messages *)

ErrorReported(r, i) == \E k \in 1..Len(errors[r]) : errors[r][k].idx = i

\* fast_compress or the read back raised: nothing was appended for the file.
Failed(r, i) ==
    \E k \in 1..Len(errors[r]) : errors[r][k].idx = i /\ errors[r][k].e # "report"

\* The files already through the loop that were compressed and read back
\* (respectively also reported), in upload order.
OkIdx(r) == SelectSeq([k \in 1..idx[r] |-> k - 1], LAMBDA i : ~Failed(r, i))
ReportedIdx(r) == SelectSeq([k \in 1..idx[r] |-> k - 1], LAMBDA i : ~ErrorReported(r, i))

\* The download offered holds the compressed file i.
Delivered(r, i) ==
    /\ download[r] # <<>>
    /\ \E k \in 1..Len(download[r][1].entries) :
          /\ download[r][1].entries[k].name = "compressed_" \o up_files[r][i + 1].name
          /\ Len(download[r][1].entries[k].data.pages) = Len(up_files[r][i + 1].pages)

\* The run ended with an exception nothing caught, raised while file i was
\* staged: Streamlit shows that exception.
Uncaught(r, i) == pc[r] = "raised" /\ idx[r] = i

\* C4: when an invocation has ended, every submitted document was either
\* handed over in the download or had an error reported for it (the uncaught
\* exception counts for the file it was raised on).
C4_DeliveredOrError ==
    \A r \in Runs :
        pc[r] \in {"end", "raised"} =>
            \A i \in 0..(Len(up_files[r]) - 1) :
                Delivered(r, i) \/ ErrorReported(r, i) \/ Uncaught(r, i)

C7_LockReleasedAndAcquired ==
    \A r \in Runs :
        /\ (process_lock[session[r]] = r) ~> (process_lock[session[r]] # r)
        /\ (pc[r] = "acquire") ~> (process_lock[session[r]] = r)

\* A run waits for the lock of its session, which the other run has just
\* released by the exception of a failed staged-input write.
C7_Witness ==
    \E r1, r2 \in Runs :
        /\ r1 # r2
        /\ session[r1] = session[r2]
        /\ pc[r1] = "acquire"
        /\ pc[r2] = "raised"
        /\ process_lock[session[r1]] = "free"

\* C8: whenever a page's raster buffer is held, no other page's encoded stream
\* is: the stream of a page is released before the next page's buffer is
\* created.
C8_StreamReleasedBeforeNextPage ==
    \A r \in Runs :
        (pix[r] # <<>> /\ img_data[r] # <<>>) => img_data[r][1].page = pix[r][1].page

\* C9: an exception caught for one file does not stop the batch.  Between
\* files and after the loop, the results hold exactly the files compressed and
\* read back so far, and the report exactly the files without any error, both
\* in upload order; a batch that finished went through every file.
C9_BatchContinues ==
    \A r \in Runs :
        /\ pc[r] \in {"complete", "release", "end"} => idx[r] = Len(up_files[r])
        /\ pc[r] \in {"stage", "complete", "release", "end"} =>
              /\ Len(processed_results[r]) = Len(OkIdx(r))
              /\ \A k \in 1..Len(OkIdx(r)) :
                    processed_results[r][k][2] = up_files[r][OkIdx(r)[k] + 1].name
              /\ Len(report_data[r]) = Len(ReportedIdx(r))
              /\ \A k \in 1..Len(ReportedIdx(r)) :
                    report_data[r][k].FileName = up_files[r][ReportedIdx(r)[k] + 1].name
              /\ \A i \in 0..(idx[r] - 1) :
                    Cardinality({k \in 1..Len(errors[r]) : errors[r][k].idx = i}) <= 1

\* A batch of two finished: rendering the first file raised, the second file
\* was compressed and reported.
C9_Witness ==
    \E r \in Runs :
        /\ pc[r] = "end"
        /\ Len(up_files[r]) = 2
        /\ Failed(r, 0)
        /\ errors[r][1].e = "render"
        /\ ~ErrorReported(r, 1)
        /\ Len(processed_results[r]) = 1

\* C10: after a batch has finished, a single PDF is offered exactly when one
\* file was compressed; otherwise a ZIP is offered whose entries are the
\* compressed files, 'compressed_<name>' each, in upload order.
C10_DownloadMatchesSuccesses ==
    \A r \in Runs :
        Finished(r) =>
            /\ download[r] # <<>>
            /\ LET d == download[r][1]
                   ok == OkIdx(r)
               IN  /\ d.kind \in {"pdf", "zip"}
                   /\ d.kind = "pdf" <=> Len(ok) = 1
                   /\ d.kind = "pdf" => d.file_name = "compressed_" \o up_files[r][ok[1] + 1].name
                   /\ d.kind = "zip" => d.file_name = "compressed_pdfs_batch.zip"
                   /\ Len(d.entries) = Len(ok)
                   /\ \A k \in 1..Len(ok) :
                         /\ d.entries[k].name = "compressed_" \o up_files[r][ok[k] + 1].name
                         /\ Len(d.entries[k].data.pages) = Len(up_files[r][ok[k] + 1].pages)

\* A batch of two finished with the first file failed and the second
\* compressed: the second is offered as a single PDF.
C10_Witness ==
    \E r \in Runs :
        /\ Finished(r)
        /\ Len(up_files[r]) = 2
        /\ Failed(r, 0)
        /\ ~Failed(r, 1)
        /\ download[r][1].kind = "pdf"
        /\ download[r][1].file_name = "compressed_" \o up_files[r][2].name

====
